---- MODULE Spec2Model ----
(***************************************************************************)
(* Catalog cache and selection engine of the NCS song fetcher.             *)
(*                                                                         *)
(*   - utils/ncs.js      (src/unnamed/part_006): fetchTrendingSongs,       *)
(*                        fetchAllTimeBestSongs, getRandomSong,            *)
(*                        formatSongData, validateSongUrls                 *)
(*   - the API server    (src/client/src/components/MusicPlayer.tsx):      *)
(*                        getCachedTrendingSongs, getCachedAllTimeBestSongs*)
(*                        and the GET /random handler                      *)
(*   - MemStorage        (src/server/storage.ts)                           *)
(*                                                                         *)
(* JavaScript's falsy values null, undefined and "" are all written ""     *)
(* here: the code only ever tests them with ||, && and !.                  *)
(***************************************************************************)
EXTENDS Integers, Sequences, FiniteSets, TLC

\* ------------------------------------------------------------------ bounds
\* The catalog holds at most CatalogDepth non-empty pages from a refresh's
\* start page on; every later page answers [] or rejects.
CatalogDepth == 2
\* Date.now() when the process starts: later than any ttl after the epoch,
\* where the timestamps start (cacheTimestamp = 0, lastFetch = 0).
StartTime == 3
\* The clock stops MaxElapsed units after the start.
MaxElapsed == 3
\* setTimeout retries of MemStorage that can be pending at once.
MaxTimers == 1
\* Largest maxPages argument given to a refresh that is followed on its own.
MaxPagesArg == 5
\* Largest pool handed to getRandomSong on its own.
MaxPool == 10
\* getMultipleRandomSongs is given pools of up to MaxBatchPool tracks (and
\* one pool larger than its cap of 10).
MaxBatchPool == 3
\* Search queries are all the strings of up to MaxQuery letters of
\* QueryLetters (and three longer ones).
MaxQuery == 2
\* catalog pages holding songs past the all-time offset, and the largest
\* all-time maxPages followed, in SpecPages
PagesPastOffset == 1
\* redirects a download follows, and chunks of a response body counted
MaxRedirects == 3
MaxChunks == 3

\* --------------------------------------------------------------- constants
\* ttl of the trending pool, in clock units (one unit = 150 000 ms).
CACHE_DURATION == 2
\* ttl of the all-time pool, in clock units (one unit = 900 000 ms).  A
\* behaviour of Spec follows one pool, and its clock ticks in that pool's unit.
ALL_TIME_CACHE_DURATION == 2
\* Default maxPages of fetchTrendingSongs, used by getCachedTrendingSongs.
TRENDING_DEFAULT_PAGES == 20
\* maxPages that getCachedAllTimeBestSongs passes to fetchAllTimeBestSongs.
ALL_TIME_PAGES == 5
\* fetchAllTimeBestSongs starts at page ALL_TIME_OFFSET + 1.
ALL_TIME_OFFSET == 20
\* getRandomSong: random < 0.7 and random < 0.9, in hundredths.
TOP_CHANCE == 70
POPULAR_CHANCE == 90
\* getRandomSong: Math.ceil(totalSongs * 0.6) and Math.ceil(totalSongs * 0.8),
\* in tenths.
TOP_SHARE == 6
POPULAR_SHARE == 8
\* ttl of MemStorage, in clock units (one unit = 12 hours).
STORAGE_CACHE_DURATION == 2
\* MemStorage.loadInitialSongs requests pages 1..STORAGE_PAGES.
STORAGE_PAGES == 25
\* getMultipleRandomSongs: Math.min(count, 10, songs.length), count = 3,
\* attempts < 10
MAX_BATCH == 10
DEFAULT_COUNT == 3
MAX_ATTEMPTS == 10
\* routes.ts, GET /random: parseInt(req.query.count) || 1, Math.min(count, 50)
ROUTE_DEFAULT_COUNT == 1
ROUTE_MAX_COUNT == 50
\* the worker script: const DEFAULT_PAGES = 5
WORKER_PAGES == 5

\* The two caches of the API server.
Kinds == {"trending", "alltime"}
\* The pools: the two caches, and MemStorage.songs.
Pools == Kinds \cup {"storage"}
\* The concurrent callers of a pool, and MemStorage's own background loads
\* (the constructor's, then the setTimeout retries).
Callers == {"c1", "c2"}
\* MemStorage is followed with one caller beside its background loads.
StorageCallers == {"c1"}
Bg == "bg"
Procs == Callers \cup {Bg}

\* ------------------------------------------------------------------ tracks
\* A raw catalog track.  download.present = FALSE is a missing download
\* object; present with regular = "" is a download object without a regular
\* link.
Track(n, p, dp, dr, c) ==
    [name |-> n, previewUrl |-> p,
     download |-> [present |-> dp, regular |-> dr], coverUrl |-> c]

\* has a preview and a regular download link
TrackFull == Track("alpha", "http://p/alpha", TRUE, "http://d/alpha", "http://c/alpha")
\* has no URL of any kind
TrackBare == Track("bravo", "", FALSE, "", "http://c/bravo")
\* a download object that carries no link, and no preview
TrackNoLink == Track("charlie", "", TRUE, "", "http://c/charlie")

\* ----------------------------------------------------- the catalog source
\* getSongs(page): rejects, or resolves with a list of tracks.
Rejected == [ok |-> FALSE, songs |-> <<>>]
Resolved(songs) == [ok |-> TRUE, songs |-> songs]

\* ------------------------------------------------- fetch*Songs (ncs.js)
StartPage(kind) == IF kind = "trending" THEN 1 ELSE ALL_TIME_OFFSET + 1

LastPage(kind, maxPages) ==
    IF kind = "trending" THEN maxPages ELSE maxPages + ALL_TIME_OFFSET

\* After the loop: an empty accumulation is an error, anything else the
\* result.
FetchFinishLenient(f) == [f EXCEPT !.st = "ok"]
FetchFinish(f) ==
    [f EXCEPT !.st = IF f.allSongs = <<>> THEN "err" ELSE "ok"]

\* The call up to its first await.
FetchBegin(kind, maxPages) ==
    LET f0 == [kind |-> kind, maxPages |-> maxPages, page |-> StartPage(kind),
               allSongs |-> <<>>, st |-> "req", log |-> <<>>]
    IN  IF StartPage(kind) <= LastPage(kind, maxPages) THEN f0 ELSE FetchFinish(f0)

\* Whether a rejected page makes the whole fetch throw.
AnyPageThrows(f) == f.kind = "trending"
FirstPageThrows(f) == f.kind = "trending" /\ f.page = 1

\* (FetchPageNoBreak: the same without the break on an empty page.)
FetchPageNoBreak(f, resp) ==
    LET g == [f EXCEPT !.log = Append(@, [page |-> f.page, resp |-> resp])]
    IN  IF ~resp.ok
        THEN IF f.kind = "trending" /\ f.page = 1
             THEN [g EXCEPT !.st = "err"] ELSE FetchFinish(g)
        ELSE LET h == [g EXCEPT !.allSongs = @ \o resp.songs]
             IN  IF f.page + 1 <= LastPage(f.kind, f.maxPages)
                 THEN [h EXCEPT !.page = f.page + 1]
                 ELSE FetchFinish(h)

\* One loop iteration, from the answer to getSongs(f.page) to the next
\* request or to the end of the function.  log records the requests made
\* and their answers.
FetchPage(f, resp) ==
    LET g == [f EXCEPT !.log = Append(@, [page |-> f.page, resp |-> resp])]
    IN  IF ~resp.ok
        THEN IF FirstPageThrows(f) THEN [g EXCEPT !.st = "err"] ELSE FetchFinish(g)
        ELSE IF Len(resp.songs) > 0
             THEN LET h == [g EXCEPT !.allSongs = @ \o resp.songs]
                  IN  IF f.page + 1 <= LastPage(f.kind, f.maxPages)
                      THEN [h EXCEPT !.page = f.page + 1]
                      ELSE FetchFinish(h)
             ELSE FetchFinish(g)

NoFetch == [kind |-> "trending", maxPages |-> 0, page |-> 0,
            allSongs |-> <<>>, st |-> "none", log |-> <<>>]

\* What is kept of a fetch once it has settled: how it ended and, when it
\* had accumulated nothing, the last answer it got.
Settled(f) ==
    [NoFetch EXCEPT !.st = f.st,
                    !.log = IF f.allSongs = <<>> /\ f.log # <<>>
                            THEN <<f.log[Len(f.log)]>> ELSE <<>>]

\* --------------------------------------------------------------- variables
VARIABLES
    now,          \* Date.now(), in clock units
    pool,         \* cachedTrendingSongs, cachedAllTimeBestSongs, MemStorage.songs
    stamp,        \* cacheTimestamp, allTimeCacheTimestamp, MemStorage.lastFetch
    call,         \* the call each process is in
    timers,       \* pending setTimeout(loadInitialSongs) of MemStorage
    lastResult,   \* history: the result of the last refresh that published
    poolKind,     \* the pool a behaviour of Spec follows
    req,          \* the GET /random request of the API server being handled
    sel,          \* a getRandomSong call on its own: arguments and result
    many,         \* a getMultipleRandomSongs call on its own
    fn,           \* a searchInSongs / validateSongUrls call on its own
    route,        \* the GET /random?count=N request of the MemStorage routes
    proc,         \* a process started from the command line
    silent,       \* the callers whose page request the catalog never answers
    dl,           \* a downloadMP3 call: its promise, its request, the file
    catalogUp     \* whether the catalog answers with usable pages

vars == <<now, pool, stamp, call, timers, lastResult, poolKind, req, sel,
          many, fn, route, proc, silent, dl, catalogUp>>
cacheVars == <<now, pool, stamp, call, timers, lastResult, poolKind>>

cachedTrendingSongs == pool["trending"]
cacheTimestamp == stamp["trending"]
cachedAllTimeBestSongs == pool["alltime"]
allTimeCacheTimestamp == stamp["alltime"]
songs == pool["storage"]
lastFetch == stamp["storage"]

\* ------------------------------------- getCached*Songs (the API server)
Ttl(kind) ==
    CASE kind = "trending" -> CACHE_DURATION
      [] kind = "alltime" -> ALL_TIME_CACHE_DURATION
      [] OTHER -> STORAGE_CACHE_DURATION

DefaultPages(kind) ==
    IF kind = "trending" THEN TRENDING_DEFAULT_PAGES ELSE ALL_TIME_PAGES

\* "Check if cache is still valid"
CacheValidShort(p, s, t, kind) == Len(p) > 0 /\ (t - s) < Ttl(kind) - 1
CacheValid(p, s, t, kind) == Len(p) > 0 /\ (t - s) < Ttl(kind)

NoReturn == [ok |-> FALSE, val |-> <<>>]
Returned(val) == [ok |-> TRUE, val |-> val]

\* held: while a refresh is in flight, whether the pool held records when it
\* began.
NoCall == [pc |-> "idle", op |-> "none", kind |-> "trending", now |-> 0,
           held |-> FALSE, f |-> NoFetch, ret |-> NoReturn, path |-> "none"]

\* A refresh builds its result in the local allSongs: while it is in flight
\* the published pool p stays what it was.
InFlightPublishing(p, f) == IF f.allSongs # <<>> THEN f.allSongs ELSE p
InFlight(p, f) == p

\* cached = await fetch(): the assignment happens only when the fetch
\* resolves.
CacheAfterClearing(p, f) == IF f.st = "ok" THEN f.allSongs ELSE <<>>
CacheAfter(p, f) == IF f.st = "ok" THEN f.allSongs ELSE p

\* cacheTimestamp = now, the Date.now() read when the call began.
StampAfter(s, callNow, f) == IF f.st = "ok" THEN callNow ELSE s

\* What the call returns once the fetch has settled: the fresh pool, the
\* stale pool when the fetch threw and a pool exists, else the error.
ReturnAfter(p, f) ==
    IF f.st = "ok" THEN Returned(f.allSongs)
    ELSE IF Len(p) > 0 THEN Returned(p)
    ELSE NoReturn

PathAfter(p, f) ==
    IF f.st = "ok" THEN "fresh" ELSE IF Len(p) > 0 THEN "stale" ELSE "error"

\* The getCached* call of process c continues with fetch state f.
Settle(c, f) ==
    LET k == call[c].kind
    IN  IF f.st = "req"
        THEN /\ call' = [call EXCEPT ![c].pc = "fetch", ![c].f = f]
             /\ pool' = [pool EXCEPT ![k] = InFlight(@, f)]
             /\ UNCHANGED <<stamp, lastResult>>
        ELSE /\ pool' = [pool EXCEPT ![k] = CacheAfter(@, f)]
             /\ stamp' = [stamp EXCEPT ![k] = StampAfter(@, call[c].now, f)]
             /\ lastResult' = [lastResult EXCEPT ![k] = IF f.st = "ok" THEN f.allSongs ELSE @]
             /\ call' = [call EXCEPT ![c].pc = "ret", ![c].f = Settled(f), ![c].now = 0,
                                     ![c].held = FALSE,
                                     ![c].ret = ReturnAfter(pool[k], f),
                                     ![c].path = PathAfter(pool[k], f)]

\* getCachedTrendingSongs() / getCachedAllTimeBestSongs() up to the first
\* await.  A caller whose previous call has returned may call again.
GetCached(c, k) ==
    /\ k \in Kinds
    /\ call[c].pc \in {"idle", "ret"}
    /\ IF CacheValid(pool[k], stamp[k], now, k)
       THEN /\ call' = [call EXCEPT ![c] = [NoCall EXCEPT !.pc = "ret", !.op = "getCached",
                                               !.kind = k,
                                               !.ret = Returned(pool[k]), !.path = "hit"]]
            /\ UNCHANGED <<pool, stamp, lastResult>>
       ELSE LET f == FetchBegin(k, DefaultPages(k))
            IN  /\ f.st = "req"
                /\ call' = [call EXCEPT ![c] = [NoCall EXCEPT !.pc = "fetch", !.op = "getCached",
                                                   !.kind = k, !.now = now,
                                                   !.held = Len(pool[k]) > 0, !.f = f]]
                /\ UNCHANGED <<pool, stamp, lastResult>>
    /\ UNCHANGED <<now, timers, poolKind>>

\* The lists a catalog page can hold.
PageLists == {<<>>, <<TrackFull>>}

\* What getSongs can answer for the page that lies `offset` pages after a
\* refresh's start page.
Answers(offset, lists) ==
    {Rejected} \cup {Resolved(l) : l \in IF offset < CatalogDepth THEN lists ELSE {<<>>}}

\* getSongs(page) settles for a getCached* call, with one of `lists` or a
\* rejection.
PageResponse(c, lists) ==
    /\ call[c].pc = "fetch"
    /\ call[c].op = "getCached"
    /\ \E resp \in Answers(call[c].f.page - StartPage(call[c].kind), lists) :
           Settle(c, FetchPage(call[c].f, resp))
    /\ UNCHANGED <<now, timers, poolKind>>

\* ------------------------------------------- MemStorage (storage.ts)
\* The Song built from a catalog track (the title's decoration and the
\* duration are left out).
SongOf(t) ==
    [title |-> t.name,
     streamUrl |-> IF t.previewUrl # "" THEN t.previewUrl ELSE t.download.regular,
     downloadUrl |-> t.download.regular,
     thumbnailUrl |-> t.coverUrl]

\* if (ncsTrack.name && ncsTrack.download && ncsTrack.coverUrl)
TrackAccepted(t) == t.name # "" /\ t.download.present /\ t.coverUrl # ""

\* "Only add songs with valid URLs"
SongValid(s) == s.streamUrl # "" /\ s.downloadUrl # "" /\ s.thumbnailUrl # ""

\* The songs one page adds to allSongs.
LoadedSongs(list) ==
    LET kept == SelectSeq(list, LAMBDA t : TrackAccepted(t) /\ SongValid(SongOf(t)))
    IN  [i \in 1..Len(kept) |-> SongOf(kept[i])]

\* id: randomUUID(), for the songs a page adds after `base` others: an id
\* no other song of the same load has.
Identified(list, base) ==
    [i \in 1..Len(list) |->
       [id |-> base + i, title |-> list[i].title, streamUrl |-> list[i].streamUrl,
        downloadUrl |-> list[i].downloadUrl, thumbnailUrl |-> list[i].thumbnailUrl]]

\* "Don't load if we already have songs and cache is still valid"
\* (LoadSkippedNever: the same without that early return.)
LoadSkippedNever(p, s, t) == FALSE
LoadSkipped(p, s, t) == Len(p) > 0 /\ (t - s) < STORAGE_CACHE_DURATION

\* refreshSongsIfNeeded
NeedsRefresh(s, t) == (t - s) > STORAGE_CACHE_DURATION

LoadBegin == [kind |-> "storage", maxPages |-> STORAGE_PAGES, page |-> 1,
              allSongs |-> <<>>, st |-> "req", log |-> <<>>]

\* Pages past the catalog's depth answer [] or reject, and the loop goes on
\* either way without adding a song: they are taken together with the last
\* page that can hold songs.
LoadLastPage == IF STORAGE_PAGES < CatalogDepth THEN STORAGE_PAGES ELSE CatalogDepth

\* One iteration of the page loop: a rejected page is logged and skipped.
\* After the last page the load has songs ("ok") or none ("err").
LoadPage(f, resp) ==
    LET g == [f EXCEPT !.allSongs =
                @ \o (IF resp.ok THEN Identified(LoadedSongs(resp.songs), Len(@)) ELSE <<>>)]
    IN  IF f.page < LoadLastPage THEN [g EXCEPT !.page = f.page + 1] ELSE FetchFinish(g)

\* this.songs = allSongs, or seedWithFallbackData's this.songs = [].
SongsAfter(p, f) == IF f.st = "ok" THEN f.allSongs ELSE <<>>

\* this.lastFetch = Date.now(), read when the load ends.
LastFetchAfter(s, t, f) == IF f.st = "ok" THEN t ELSE s

\* seedWithFallbackData's setTimeout (retries beyond MaxTimers are not
\* followed).
\* (TimersAfterNone: the same without the setTimeout.)
TimersAfterNone(n, f) == n
TimersAfter(n, f) ==
    IF f.st = "ok" THEN n ELSE IF n < MaxTimers THEN n + 1 ELSE MaxTimers

StoragePageLists == {<<>>, <<TrackFull>>, <<TrackNoLink, TrackBare>>}

\* What follows refreshSongsIfNeeded (for a caller) or the load (for the
\* background process), the pool being p.
AfterRefresh(c, op, p) ==
    CASE op = "getAllSongs" ->
           call' = [call EXCEPT ![c] = [NoCall EXCEPT !.pc = "ret", !.op = op,
                                           !.kind = "storage", !.ret = Returned(p),
                                           !.path = "songs"]]
      [] op = "getRandomSong" ->
           IF Len(p) = 0
           THEN call' = [call EXCEPT ![c] = [NoCall EXCEPT !.pc = "fallback", !.op = op,
                                                !.kind = "storage"]]
           ELSE \E i \in 1..Len(p) :
                  call' = [call EXCEPT ![c] = [NoCall EXCEPT !.pc = "ret", !.op = op,
                                                 !.kind = "storage",
                                                 !.ret = Returned(<<p[i]>>),
                                                 !.path = "songs"]]
      [] OTHER -> call' = [call EXCEPT ![c] = NoCall]

Loading(op, held) ==
    [NoCall EXCEPT !.pc = "fetch", !.op = op, !.kind = "storage", !.held = held,
                   !.f = LoadBegin]

\* getAllSongs() / getRandomSong() up to the first await.
StorageCall(c, op) ==
    /\ call[c].pc \in {"idle", "ret"}
    /\ IF NeedsRefresh(lastFetch, now) /\ ~LoadSkipped(songs, lastFetch, now)
       THEN call' = [call EXCEPT ![c] = Loading(op, Len(songs) > 0)]
       ELSE AfterRefresh(c, op, songs)
    /\ UNCHANGED <<now, pool, stamp, timers, lastResult, poolKind>>

\* getSongs(page) has settled with resp for a loadInitialSongs in flight:
\* the next page is requested, or the load ends.
LoadSettles(c, resp) ==
    LET f == LoadPage(call[c].f, resp)
    IN  IF f.st = "req"
        THEN /\ call' = [call EXCEPT ![c].f = f]
             /\ pool' = [pool EXCEPT !["storage"] = InFlight(@, f)]
             /\ UNCHANGED <<stamp, timers, lastResult>>
        ELSE /\ pool' = [pool EXCEPT !["storage"] = SongsAfter(@, f)]
             /\ stamp' = [stamp EXCEPT !["storage"] = LastFetchAfter(@, now, f)]
             /\ timers' = TimersAfter(timers, f)
             /\ lastResult' = [lastResult EXCEPT
                                 !["storage"] = IF f.st = "ok" THEN f.allSongs ELSE @]
             /\ AfterRefresh(c, call[c].op, SongsAfter(songs, f))

\* getSongs(page) settles for a loadInitialSongs in flight.
LoadResponseOf(c, lists) ==
    /\ call[c].pc = "fetch"
    /\ call[c].kind = "storage"
    /\ \E resp \in Answers(call[c].f.page - 1, lists) : LoadSettles(c, resp)
    /\ UNCHANGED <<now, poolKind>>

LoadResponse(c) == LoadResponseOf(c, StoragePageLists)

\* What getRandomSong returns from the page it fetched for want of a pool.
FallbackSong(t) == IF TrackAccepted(t) THEN <<SongOf(t)>> ELSE <<>>

\* getSongs(1) settles for a getRandomSong that found the pool empty.
FallbackResponse(c) ==
    /\ call[c].pc = "fallback"
    /\ \E resp \in Answers(0, StoragePageLists) :
         IF resp.ok /\ Len(resp.songs) > 0
         THEN \E i \in 1..Len(resp.songs) :
                call' = [call EXCEPT ![c].pc = "ret",
                                     ![c].ret = Returned(FallbackSong(resp.songs[i])),
                                     ![c].path = "fallback"]
         ELSE call' = [call EXCEPT ![c].pc = "ret", ![c].ret = Returned(<<>>),
                                   ![c].path = "fallback"]
    /\ UNCHANGED <<now, pool, stamp, timers, lastResult, poolKind>>

\* The setTimeout callback of seedWithFallbackData: loadInitialSongs().
TimerFires ==
    /\ timers > 0
    /\ call[Bg].pc = "idle"
    /\ timers' = timers - 1
    /\ call' = IF LoadSkipped(songs, lastFetch, now) THEN call
               ELSE [call EXCEPT ![Bg] = Loading("load", Len(songs) > 0)]
    /\ UNCHANGED <<now, pool, stamp, lastResult, poolKind>>

Tick ==
    /\ now < StartTime + MaxElapsed
    /\ now' = now + 1
    /\ UNCHANGED <<pool, stamp, call, timers, lastResult, poolKind>>

\* ------------------------------ MemStorage and a catalog that recovers
\* The catalog is down (every page request rejects or brings no usable
\* track) until it comes up; from then on it answers every request, its
\* first page with usable tracks.
\* a regular download link and no preview
TrackEcho == Track("echo", "", TRUE, "http://d/echo", "http://c/echo")
RetryPageLists == StoragePageLists \cup {<<TrackEcho>>, <<TrackBare, TrackFull, TrackEcho>>}
Usable(list) == LoadedSongs(list) # <<>>
CatalogAnswers(up, page) ==
    IF up
    THEN {Resolved(l) : l \in {x \in RetryPageLists : page > 1 \/ Usable(x)}}
    ELSE {Rejected} \cup {Resolved(l) : l \in {x \in RetryPageLists : ~Usable(x)}}

CatalogRecovers ==
    /\ ~catalogUp
    /\ catalogUp' = TRUE
    /\ UNCHANGED <<cacheVars, req, sel, many, fn, route, proc, silent, dl>>

\* getSongs(page) settles for the load MemStorage runs on its own.
RetryLoadResponse ==
    /\ call[Bg].pc = "fetch"
    /\ call[Bg].kind = "storage"
    /\ \E resp \in CatalogAnswers(catalogUp, call[Bg].f.page) : LoadSettles(Bg, resp)
    /\ UNCHANGED <<now, poolKind, req, sel, many, fn, route, proc, silent, dl, catalogUp>>

\* ------------------------------------------ selection (ncs.js)
\* Math.random() is drawn in hundredths: 0, 0.01, ..., 0.99.
\* Math.floor(Math.random() * m)
RandomIndex(m, u) == (u * m) \div 100

\* Math.ceil(n * tenths / 10)
CeilShare(n, tenths) == (n * tenths + 9) \div 10

\* getRandomSong(songs), for a non-empty list, with its two draws.
GetRandomSongFlat(list, random, u) == list[RandomIndex(Len(list), u) + 1]
GetRandomSong(list, random, u) ==
    LET totalSongs == Len(list)
        topTrendingCount == CeilShare(totalSongs, TOP_SHARE)
    IN  IF random < TOP_CHANCE
        THEN LET topSongs == SubSeq(list, 1, topTrendingCount)
             IN  topSongs[RandomIndex(Len(topSongs), u) + 1]
        ELSE IF random < POPULAR_CHANCE
        THEN LET popularCount == CeilShare(totalSongs, POPULAR_SHARE)
                 popularSongs == SubSeq(list, 1, popularCount)
             IN  popularSongs[RandomIndex(Len(popularSongs), u) + 1]
        ELSE list[RandomIndex(totalSongs, u) + 1]

\* What formatSongData yields for download_url when song.download is an
\* object without a regular link: the object itself.
DownloadObject == "[object Object]"

\* validateSongUrls(song), for a raw catalog track.
ValidateSongUrls(t) ==
    LET streamUrl == t.previewUrl
        downloadTruthy == t.download.regular # "" \/ t.download.present \/ streamUrl # ""
    IN  ~(streamUrl = "" /\ ~downloadTruthy)

\* formatSongData(song), for a raw catalog track (the descriptive fields
\* are left out).
FormatSongData(t) ==
    LET streamUrl == t.previewUrl
        downloadUrl == IF t.download.regular # "" THEN t.download.regular
                       ELSE IF t.download.present THEN DownloadObject
                       ELSE streamUrl
    IN  [title |-> IF t.name # "" THEN t.name ELSE "Unknown Title",
         stream_url |-> streamUrl,
         download_url |-> downloadUrl,
         cover_url |-> t.coverUrl]

\* --------------------------------- GET /random (the API server)
NoSong == [title |-> "", stream_url |-> "", download_url |-> "", cover_url |-> ""]
NoRequest == [pc |-> "idle", trendingSongs |-> <<>>, status |-> 0, song |-> NoSong,
              draws |-> 0]
Handler == "c1"

Randoms == {0, 69, 70, 89, 90, 99}
Indexers == {0, 10, 20, 30, 40, 50, 60, 70, 80, 90}

\* The song the handler formats once both draws are made.
SongToFormat(randomSong, anotherSong) == randomSong

\* From "Combine both song pools" to the response.
Respond(trendingSongs, allTimeSongs) ==
    LET allSongs == trendingSongs \o allTimeSongs
    IN  IF Len(allSongs) = 0
        THEN req' = [NoRequest EXCEPT !.pc = "done", !.status = 404]
        ELSE \E r1 \in Randoms, u1 \in Indexers :
               LET randomSong == GetRandomSong(allSongs, r1, u1)
               IN  IF ValidateSongUrls(randomSong)
                   THEN req' = [NoRequest EXCEPT !.pc = "done", !.status = 200,
                                                !.song = FormatSongData(randomSong),
                                                !.draws = 1]
                   ELSE \E r2 \in Randoms, u2 \in Indexers :
                          LET anotherSong == GetRandomSong(allSongs, r2, u2)
                          IN  IF ~ValidateSongUrls(anotherSong)
                              THEN req' = [NoRequest EXCEPT !.pc = "done", !.status = 500,
                                                           !.draws = 2]
                              ELSE req' = [NoRequest EXCEPT
                                             !.pc = "done", !.status = 200,
                                             !.song = FormatSongData(
                                                 SongToFormat(randomSong, anotherSong)),
                                             !.draws = 2]

\* The handler up to its first await: getCachedTrendingSongs().
RandomStart ==
    /\ req.pc \in {"idle", "done"}
    /\ GetCached(Handler, "trending")
    /\ req' = [NoRequest EXCEPT !.pc = "trending"]
    /\ UNCHANGED sel

\* getCachedTrendingSongs() has settled: the catch block answers 500, or
\* getCachedAllTimeBestSongs() is called.
RandomAfterTrending ==
    /\ req.pc = "trending"
    /\ call[Handler].pc = "ret"
    /\ IF call[Handler].ret.ok
       THEN /\ GetCached(Handler, "alltime")
            /\ req' = [req EXCEPT !.pc = "alltime", !.trendingSongs = call[Handler].ret.val]
       ELSE /\ req' = [NoRequest EXCEPT !.pc = "done", !.status = 500]
            /\ UNCHANGED <<now, pool, stamp, call, timers, lastResult, poolKind>>
    /\ UNCHANGED sel

\* getCachedAllTimeBestSongs() has settled: the rest of the handler.
RandomAfterAllTime ==
    /\ req.pc = "alltime"
    /\ call[Handler].pc = "ret"
    /\ IF call[Handler].ret.ok
       THEN Respond(req.trendingSongs, call[Handler].ret.val)
       ELSE req' = [NoRequest EXCEPT !.pc = "done", !.status = 500]
    /\ UNCHANGED <<now, pool, stamp, call, timers, lastResult, poolKind, sel>>

RandomPageLists == {<<>>, <<TrackFull>>, <<TrackBare>>}

\* ------------------------------------ a refresh followed on its own
RefreshPageLists == {<<>>, <<TrackFull>>, <<TrackBare>>, <<TrackFull, TrackBare, TrackNoLink>>}
Refresher == "c1"

\* fetchTrendingSongs(maxPages) / fetchAllTimeBestSongs(maxPages), called
\* directly: the call as it stands with fetch state f.
Refreshing(k, f) ==
    [NoCall EXCEPT !.pc = IF f.st = "req" THEN "fetch" ELSE "ret",
                   !.op = "refresh", !.kind = k, !.f = f,
                   !.ret = IF f.st = "ok" THEN Returned(f.allSongs) ELSE NoReturn]

\* getSongs(page) settles for the refresh.
RefreshPage ==
    /\ call[Refresher].pc = "fetch"
    /\ call[Refresher].op = "refresh"
    /\ \E resp \in Answers(call[Refresher].f.page - StartPage(call[Refresher].kind),
                          RefreshPageLists) :
         call' = [call EXCEPT ![Refresher] =
                    Refreshing(call[Refresher].kind, FetchPage(call[Refresher].f, resp))]
    /\ UNCHANGED <<now, pool, stamp, timers, lastResult, poolKind, req, sel>>

\* ------------------------------------ two refreshes side by side
\* fetchTrendingSongs(m1) and fetchAllTimeBestSongs(m2) against a catalog
\* whose pages hold songs up to page ALL_TIME_OFFSET + PagesPastOffset.
DeepCatalogDepth == ALL_TIME_OFFSET + PagesPastOffset
TrendingCaller == "c1"
AllTimeCaller == "c2"
RefreshCallers == {TrendingCaller, AllTimeCaller}
TrendingArgs == {0, 1, ALL_TIME_OFFSET} \cup {ALL_TIME_OFFSET + i : i \in 1..PagesPastOffset}
AllTimeArgs == 0..PagesPastOffset

\* What getSongs(page) can answer in that catalog.
DeepAnswers(page) ==
    {Rejected} \cup {Resolved(l) : l \in IF page <= DeepCatalogDepth
                                         THEN {<<>>, <<TrackFull>>} ELSE {<<>>}}

\* getSongs(page) settles for the refresh of caller c.
DeepPageResponse(c) ==
    /\ call[c].pc = "fetch"
    /\ call[c].op = "refresh"
    /\ \E resp \in DeepAnswers(call[c].f.page) :
         call' = [call EXCEPT ![c] = Refreshing(call[c].kind, FetchPage(call[c].f, resp))]
    /\ UNCHANGED <<now, pool, stamp, timers, lastResult, poolKind, req, sel>>

\* ------------------------------------ getRandomSong on its own
NoSelection == [pc |-> "none", n |-> 0, random |-> 0, u |-> 0, out |-> 0]
Hundredths == 0..99
IndexDraws == {5 * i : i \in 0..19} \cup {99}

\* The pool of n tracks, each written as its rank.
Ranked(n) == [i \in 1..n |-> i]

Select ==
    /\ sel.pc = "in"
    /\ sel' = [sel EXCEPT !.pc = "done",
                          !.out = GetRandomSong(Ranked(sel.n), sel.random, sel.u)]
    /\ UNCHANGED <<now, pool, stamp, call, timers, lastResult, poolKind, req>>

\* --------------------------- getMultipleRandomSongs (ncs.js)
\* The songs argument: an array, or null / undefined (given = FALSE).
SongsArg(given, items) == [given |-> given, items |-> items]
\* The count argument: a number, or left out.
CountGiven(n) == [given |-> TRUE, n |-> n]
CountDefaulted == [given |-> FALSE, n |-> 0]

\* getRandomSong: !songs || songs.length === 0
NoSongs(arg) == ~arg.given \/ Len(arg.items) = 0
\* getMultipleRandomSongs: !songs || songs.length === 0
NoSongsForManyIfNull(arg) == ~arg.given
NoSongsForMany(arg) == ~arg.given \/ Len(arg.items) = 0

\* count = 3
CountOf(c) == IF c.given THEN c.n ELSE DEFAULT_COUNT

Min2(a, b) == IF a < b THEN a ELSE b
\* Math.min(count, 10, songs.length)
BatchSizeUncapped(list, count) == Min2(count, Len(list))
BatchSize(list, count) == Min2(Min2(count, MAX_BATCH), Len(list))

\* selectedSongs.some(s => s.name === selectedSong.name); a track is
\* written as its name here.
IsDuplicate(selectedSongs, selectedSong) ==
    \E j \in 1..Len(selectedSongs) : selectedSongs[j] = selectedSong

\* The do-while condition, attempts being already incremented.
KeepTryingOnce(selectedSongs, selectedSong, attempts) == FALSE
KeepTrying(selectedSongs, selectedSong, attempts) ==
    IsDuplicate(selectedSongs, selectedSong) /\ attempts < MAX_ATTEMPTS

NoMany == [pc |-> "none", op |-> "none", arg |-> SongsArg(FALSE, <<>>),
           count |-> CountDefaulted, maxCount |-> 0, attempts |-> 0,
           selectedSongs |-> <<>>, lastAttempts |-> 0, ret |-> <<>>]

\* Pools whose tracks all carry one name, or one of two names in turn.
Same(n) == [i \in 1..n |-> 1]
Alternating(n) == [i \in 1..n |-> 1 + (i % 2)]

ManyPools ==
    {SongsArg(FALSE, <<>>)}
    \cup {SongsArg(TRUE, Ranked(n)) : n \in 0..MaxBatchPool}
    \cup {SongsArg(TRUE, Same(n)) : n \in 2..MaxBatchPool}
    \cup {SongsArg(TRUE, Alternating(MAX_BATCH + 2))}
ManyCounts ==
    {CountDefaulted}
    \cup {CountGiven(n) : n \in (-2)..(MaxBatchPool + 1)}
    \cup {CountGiven(MAX_BATCH), CountGiven(MAX_BATCH + 1)}

\* getRandomSong(songs) / getMultipleRandomSongs(songs, count) up to the
\* first getRandomSong call of the loop.
ManyCall ==
    /\ many.pc = "in"
    /\ IF many.op = "getRandomSong"
       THEN IF NoSongs(many.arg)
            THEN many' = [many EXCEPT !.pc = "thrown"]
            ELSE \E r \in Randoms, u \in Indexers :
                   many' = [many EXCEPT !.pc = "done",
                              !.ret = <<GetRandomSong(many.arg.items, r, u)>>]
       ELSE IF NoSongsForMany(many.arg)
            THEN many' = [many EXCEPT !.pc = "thrown"]
            ELSE LET maxCount == BatchSize(many.arg.items, CountOf(many.count))
                 IN  many' = [many EXCEPT !.maxCount = maxCount,
                                !.pc = IF 0 < maxCount THEN "loop" ELSE "done"]
    /\ UNCHANGED <<cacheVars, req, sel, fn, route, proc, silent, dl, catalogUp>>

\* One turn of the do-while: a getRandomSong call, then either another turn
\* or selectedSongs.push and the next slot (or the return).
ManyAttempt ==
    /\ many.pc = "loop"
    /\ \E r \in Randoms, u \in Indexers :
         LET selectedSong == GetRandomSong(many.arg.items, r, u)
             attempts == many.attempts + 1
         IN  IF KeepTrying(many.selectedSongs, selectedSong, attempts)
             THEN many' = [many EXCEPT !.attempts = attempts]
             ELSE LET selectedSongs == Append(many.selectedSongs, selectedSong)
                      finished == ~(Len(selectedSongs) < many.maxCount)
                  IN  many' = [many EXCEPT
                                 !.selectedSongs = selectedSongs,
                                 !.attempts = 0,
                                 !.lastAttempts = attempts,
                                 !.pc = IF finished THEN "done" ELSE "loop",
                                 !.ret = IF finished THEN selectedSongs ELSE <<>>]
    /\ UNCHANGED <<cacheVars, req, sel, fn, route, proc, silent, dl, catalogUp>>

\* ------------------------------ searchInSongs, validateSongUrls
\* A string is written as the sequence of its characters; "" is <<>>.
\* String.prototype.toLowerCase, on the letters used here.
ToLowerChar(ch) ==
    CASE ch = "A" -> "a"
      [] ch = "F" -> "f"
      [] ch = "W" -> "w"
      [] ch = "X" -> "x"
      [] OTHER -> ch
ToLowerCase(str) == [i \in 1..Len(str) |-> ToLowerChar(str[i])]

\* String.prototype.includes
Includes(str, term) ==
    \E i \in 0..(Len(str) - Len(term)) : SubSeq(str, i + 1, i + Len(term)) = term

\* Array.prototype.join
RECURSIVE Join(_, _)
Join(strs, sep) ==
    IF Len(strs) = 0 THEN <<>>
    ELSE IF Len(strs) = 1 THEN strs[1]
    ELSE strs[1] \o sep \o Join(Tail(strs), sep)

\* String.prototype.trim
RECURSIVE TrimStart(_)
TrimStart(str) ==
    IF Len(str) > 0 /\ str[1] = " " THEN TrimStart(Tail(str)) ELSE str
RECURSIVE TrimEnd(_)
TrimEnd(str) ==
    IF Len(str) > 0 /\ str[Len(str)] = " "
    THEN TrimEnd(SubSeq(str, 1, Len(str) - 1)) ELSE str
Trim(str) == TrimEnd(TrimStart(str))

\* A song as searchInSongs reads it: name, title, the artists array (the
\* names of its entries; hasArtists = FALSE when there is none), artist
\* and genre.
SearchTrack(name, title, hasArtists, artists, artist, genre) ==
    [name |-> name, title |-> title, hasArtists |-> hasArtists,
     artists |-> artists, artist |-> artist, genre |-> genre]

\* The query argument: a string, or null / undefined.
QueryArg(given, text) == [given |-> given, text |-> text]

\* const searchTerm = query.toLowerCase()
SearchTermAsTyped(query) == query.text
SearchTerm(query) == ToLowerCase(query.text)

\* The filter callback of searchInSongs.
SongMatches(song, searchTerm) ==
    LET title == ToLowerCase(IF song.name # <<>> THEN song.name ELSE song.title)
        artist == IF song.hasArtists
                  THEN ToLowerCase(Join(song.artists, <<" ">>))
                  ELSE ToLowerCase(song.artist)
        genre == ToLowerCase(song.genre)
    IN  \/ Includes(title, searchTerm)
        \/ Includes(artist, searchTerm)
        \/ Includes(genre, searchTerm)

\* Array.prototype.filter with that callback
RECURSIVE FilterSongs(_, _)
FilterSongs(list, searchTerm) ==
    IF Len(list) = 0 THEN <<>>
    ELSE (IF SongMatches(list[1], searchTerm) THEN <<list[1]>> ELSE <<>>)
         \o FilterSongs(Tail(list), searchTerm)

\* searchInSongs(songs, query)
SearchInSongs(arg, query) ==
    IF ~query.given \/ query.text = <<>> \/ ~arg.given \/ Len(arg.items) = 0
    THEN <<>>
    ELSE FilterSongs(arg.items, SearchTerm(query))

\* searchSongs: !query || query.trim() === ''
QueryRejected(query) == ~query.given \/ Trim(query.text) = <<>>

Fade == <<"F", "a", "d", "e">>
AlanWalker == <<"A", "l", "a", "n", " ", "W", "a", "l", "k", "e", "r">>
TrackFade == SearchTrack(Fade, <<>>, TRUE, <<AlanWalker>>, <<>>, <<>>)
TrackDuo == SearchTrack(<<>>, <<"n", "a">>, TRUE, <<<<"e", "l">>, <<"A">>>>, <<>>,
                        <<"d", " ", "a">>)
TrackSolo == SearchTrack(<<"l", "e">>, <<>>, FALSE, <<>>, <<"A", "d">>, <<>>)

SearchPools ==
    {SongsArg(FALSE, <<>>), SongsArg(TRUE, <<>>), SongsArg(TRUE, <<TrackFade>>),
     SongsArg(TRUE, <<TrackFade, TrackDuo, TrackSolo>>),
     SongsArg(TRUE, <<TrackSolo, TrackFade>>)}

QueryLetters == {"a", "A", " ", "e"}
Strings(n) == UNION {[1..k -> QueryLetters] : k \in 0..n}
Queries ==
    {QueryArg(FALSE, <<>>)}
    \cup {QueryArg(TRUE, q) : q \in Strings(MaxQuery)}
    \cup {QueryArg(TRUE, <<"a", "l", "a", "n">>), QueryArg(TRUE, <<"X", "Y", "Z">>),
          QueryArg(TRUE, <<" ", "A", "l", "a", "n", " ">>)}

\* The song argument of validateSongUrls: a catalog track, or null /
\* undefined.
SongArg(given, track) == [given |-> given, track |-> track]
ValidateInputs ==
    {SongArg(FALSE, TrackBare)}
    \cup {SongArg(TRUE, Track("alpha", p, dp, dr, "")) :
            p \in {"", "http://p"}, dp \in BOOLEAN, dr \in {"", "http://d"}}

NoFn == [pc |-> "none", op |-> "none", arg |-> SongsArg(FALSE, <<>>),
         query |-> QueryArg(FALSE, <<>>), song |-> SongArg(FALSE, TrackBare),
         ret |-> <<>>, valid |-> FALSE]

\* searchInSongs(songs, query), called on its own.
SearchInSongsCall ==
    /\ fn.pc = "in"
    /\ fn.op = "searchInSongs"
    /\ fn' = [fn EXCEPT !.pc = "done", !.ret = SearchInSongs(fn.arg, fn.query)]
    /\ UNCHANGED <<cacheVars, req, sel, many, route, proc, silent, dl, catalogUp>>

\* searchSongs(query) up to await searchNCS(query.trim()).
SearchSongsCall ==
    /\ fn.pc = "in"
    /\ fn.op = "searchSongs"
    /\ fn' = [fn EXCEPT !.pc = IF QueryRejected(fn.query) THEN "thrown" ELSE "api"]
    /\ UNCHANGED <<cacheVars, req, sel, many, route, proc, silent, dl, catalogUp>>

\* searchNCS settles: its songs are returned, or (none, or a rejection)
\* fetchTrendingSongs() is awaited.
SearchApiSettles ==
    /\ fn.pc = "api"
    /\ \E api \in {SongsArg(FALSE, <<>>)} \cup SearchPools :
         fn' = IF api.given /\ Len(api.items) > 0
               THEN [fn EXCEPT !.pc = "done", !.ret = api.items]
               ELSE [fn EXCEPT !.pc = "trending"]
    /\ UNCHANGED <<cacheVars, req, sel, many, route, proc, silent, dl, catalogUp>>

\* fetchTrendingSongs() settles: it throws, or its songs are searched with
\* searchInSongs(trendingSongs, query.trim()).
SearchTrendingSettles ==
    /\ fn.pc = "trending"
    /\ \/ fn' = [fn EXCEPT !.pc = "thrown"]
       \/ \E trendingSongs \in {a \in SearchPools : a.given /\ Len(a.items) > 0} :
            fn' = [fn EXCEPT !.pc = "done",
                             !.arg = trendingSongs,
                             !.ret = SearchInSongs(trendingSongs,
                                                   QueryArg(TRUE, Trim(fn.query.text)))]
    /\ UNCHANGED <<cacheVars, req, sel, many, route, proc, silent, dl, catalogUp>>

\* validateSongUrls(song), called on its own: reading song.previewUrl of
\* null or undefined throws a TypeError.
ValidateCall ==
    /\ fn.pc = "in"
    /\ fn.op = "validateSongUrls"
    /\ fn' = IF ~fn.song.given
             THEN [fn EXCEPT !.pc = "thrown"]
             ELSE [fn EXCEPT !.pc = "done", !.valid = ValidateSongUrls(fn.song.track)]
    /\ UNCHANGED <<cacheVars, req, sel, many, route, proc, silent, dl, catalogUp>>

\* ------------------------------ formatSongData on a raw song
\* 'Unknown Artist'
UnknownArtist == <<"U", "n", "k", "n", "o", "w", "n", " ", "A", "r", "t", "i", "s", "t">>

\* A raw song as formatSongData reads it: a catalog track t together with
\* its artists array (the names of its entries; hasArtists = FALSE when
\* there is none) and its artist field, written as character sequences.
RawSong(t, hasArtists, artists, artist) ==
    t @@ [hasArtists |-> hasArtists, artists |-> artists, artist |-> artist]

\* const artistNames = song.artists && Array.isArray(song.artists) ? ... :
\* (song.artist || 'Unknown Artist') : an empty array is truthy.
FormatArtistNames(song) ==
    IF song.hasArtists THEN Join(song.artists, <<",", " ">>)
    ELSE IF song.artist # <<>> THEN song.artist ELSE UnknownArtist

\* formatSongData(song) with its artist field.
FormatRawSong(song) == FormatSongData(song) @@ [artist |-> FormatArtistNames(song)]

Elektronomia == <<"E", "l", "e", "k">>
RawSongs ==
    {RawSong(Track(n, p, dp, dr, ""), hasArtists, artists, artist) :
       n \in {"", "alpha"}, p \in {"", "http://p"}, dp \in BOOLEAN,
       dr \in {"", "http://d"}, hasArtists \in BOOLEAN,
       artists \in {<<>>, <<Fade>>, <<Fade, Elektronomia>>},
       artist \in {<<>>, Elektronomia}}
FormatInputs ==
    {SongArg(FALSE, RawSong(TrackBare, FALSE, <<>>, <<>>))}
    \cup {SongArg(TRUE, r) :
            r \in {x \in RawSongs : /\ (x.download.regular # "" => x.download.present)
                                    /\ (~x.hasArtists => x.artists = <<>>)}}

\* formatSongData(song), called on its own: reading song.previewUrl of
\* null or undefined throws, and the catch block throws in its turn.
FormatCall ==
    /\ fn.pc = "in"
    /\ fn.op = "formatSongData"
    /\ fn' = IF ~fn.song.given
             THEN [fn EXCEPT !.pc = "thrown"]
             ELSE [fn EXCEPT !.pc = "done", !.ret = FormatRawSong(fn.song.track)]
    /\ UNCHANGED <<cacheVars, req, sel, many, route, proc, silent, dl, catalogUp>>

\* fetchAndProcessSongs from its selected song on: validateSongUrls, then
\* formatSongData (displaySongInfo only prints).
ProcessSelectedSong ==
    /\ fn.pc = "in"
    /\ fn.op = "fetchAndProcessSongs"
    /\ fn' = IF ~ValidateSongUrls(fn.song.track)
             THEN [fn EXCEPT !.pc = "thrown", !.valid = FALSE]
             ELSE [fn EXCEPT !.pc = "done", !.valid = TRUE,
                             !.ret = FormatRawSong(fn.song.track)]
    /\ UNCHANGED <<cacheVars, req, sel, many, route, proc, silent, dl, catalogUp>>

\* ------------------------------ downloadMP3 (utils/download.js)
\* The url argument: missing (undefined, null, ''), not parseable by
\* new URL, of a protocol http.get refuses, or an http(s) URL.
UrlKinds == {"missing", "malformed", "unsupported", "http"}
\* response.statusCode
StatusCodes == {200, 301, 302, 404, 500}
Redirects == {301, 302}

\* A downloadMP3 call with a filename given, so that a redirected call
\* writes to the same filePath: the outermost promise, whether a file
\* exists at filePath, and the chunks received (downloadedBytes).
NoDownload ==
    [pc |-> "none", url |-> "missing", depth |-> 0, file |-> FALSE,
     promise |-> "pending", settles |-> 0, error |-> "", statusCode |-> 0,
     downloadedBytes |-> 0]

\* resolve / reject: a promise that is no longer pending ignores them; a
\* redirected call's promise is chained to the outer one (.then(resolve)
\* .catch(reject)).
SettlePromise(d, outcome, error) ==
    IF d.promise = "pending"
    THEN [d EXCEPT !.promise = outcome, !.settles = @ + 1, !.error = error]
    ELSE d

\* fs.unlink(filePath, () => {})
Unlink(d) == [d EXCEPT !.file = FALSE]

\* The promise executor up to the registration of the handlers:
\* fs.createWriteStream(filePath) creates (or empties) the file, and
\* protocol.get throws for a protocol that is not its own.
DownloadBegin(d, url) ==
    CASE url = "missing" ->
           [SettlePromise(d, "rejected", "Download URL is required") EXCEPT !.pc = "ended"]
      [] url = "malformed" ->
           [SettlePromise(d, "rejected", "Download setup failed") EXCEPT !.pc = "ended"]
      [] url = "unsupported" ->
           [SettlePromise(d, "rejected", "Download setup failed")
              EXCEPT !.pc = "ended", !.file = TRUE, !.downloadedBytes = 0]
      [] OTHER ->
           [d EXCEPT !.pc = "request", !.file = TRUE, !.downloadedBytes = 0]

\* downloadMP3(url, filename, directory) up to its return.
DownloadCall ==
    /\ dl.pc = "in"
    /\ dl' = DownloadBegin(dl, dl.url)
    /\ UNCHANGED <<cacheVars, req, sel, many, fn, route, proc, silent, catalogUp>>

\* The response callback of protocol.get: a redirect calls downloadMP3 on
\* headers.location (redirects past MaxRedirects are not followed), any
\* status but 200 rejects, 200 pipes the body into the file.
DownloadResponse ==
    /\ dl.pc = "request"
    /\ \E statusCode \in StatusCodes :
         LET d == [dl EXCEPT !.statusCode = statusCode]
         IN  IF statusCode \in Redirects
             THEN /\ dl.depth < MaxRedirects
                  /\ \E redirectUrl \in UrlKinds :
                       dl' = DownloadBegin([d EXCEPT !.depth = @ + 1], redirectUrl)
             ELSE IF statusCode # 200
             THEN dl' = [SettlePromise(d, "rejected", "HTTP: Failed to download file")
                           EXCEPT !.pc = "ended"]
             ELSE dl' = [d EXCEPT !.pc = "streaming"]
    /\ UNCHANGED <<cacheVars, req, sel, many, fn, route, proc, silent, catalogUp>>

\* response.on('data'): a chunk is counted and piped into the file.
DownloadData ==
    /\ dl.pc = "streaming"
    /\ dl.downloadedBytes < MaxChunks
    /\ dl' = [dl EXCEPT !.downloadedBytes = @ + 1]
    /\ UNCHANGED <<cacheVars, req, sel, many, fn, route, proc, silent, catalogUp>>

\* file.on('finish')
DownloadFinish ==
    /\ dl.pc = "streaming"
    /\ dl' = [SettlePromise(dl, "resolved", "") EXCEPT !.pc = "ended"]
    /\ UNCHANGED <<cacheVars, req, sel, many, fn, route, proc, silent, catalogUp>>

\* request.on('error')
DownloadRequestError ==
    /\ dl.pc \in {"request", "streaming"}
    /\ dl' = [SettlePromise(Unlink(dl), "rejected", "Download failed") EXCEPT !.pc = "ended"]
    /\ UNCHANGED <<cacheVars, req, sel, many, fn, route, proc, silent, catalogUp>>

\* file.on('error')
DownloadFileError ==
    /\ dl.pc \in {"request", "streaming"}
    /\ dl' = [SettlePromise(Unlink(dl), "rejected", "File write error") EXCEPT !.pc = "ended"]
    /\ UNCHANGED <<cacheVars, req, sel, many, fn, route, proc, silent, catalogUp>>

\* ------------------------------ GET /random?count=N (routes.ts)
\* req.query.count: left out, not a number, or the decimal writing of n.
CountParam(kind, n) == [kind |-> kind, n |-> n]
CountParams ==
    {CountParam("missing", 0), CountParam("text", 0)}
    \cup {CountParam("number", n) :
            n \in {-2, -1, 0, 1, 2, ROUTE_MAX_COUNT, ROUTE_MAX_COUNT + 1}}

\* parseInt(req.query.count as string) || 1 : NaN and 0 are falsy.
ParsedCount(param) ==
    IF param.kind = "number" /\ param.n # 0 THEN param.n ELSE ROUTE_DEFAULT_COUNT

\* Math.min(count, 50)
RouteMaxCount(count) == Min2(count, ROUTE_MAX_COUNT)

\* availableSongs.splice(randomIndex, 1)
Splice(list, i) == SubSeq(list, 1, i - 1) \o SubSeq(list, i + 1, Len(list))

\* The selection loop, i < maxCount && availableSongs.length > 0, with k
\* iterations left; the draws of Math.random() are u, u + step, ...
RECURSIVE PickSongs(_, _, _, _)
PickSongs(availableSongs, k, u, step) ==
    IF k <= 0 \/ Len(availableSongs) = 0 THEN <<>>
    ELSE LET randomIndex == RandomIndex(Len(availableSongs), u) + 1
         IN  <<availableSongs[randomIndex]>>
             \o PickSongs(Splice(availableSongs, randomIndex), k - 1,
                          (u + step) % 100, step)

NoRoute == [pc |-> "idle", param |-> CountParam("missing", 0), maxCount |-> 0,
            status |-> 0, data |-> <<>>, count |-> 0, total |-> 0]

\* const availableSongs = [...allSongs]: the splices work on a copy, the
\* stored array p keeps its songs (picked are those taken out).
SongsAfterPicking(p, picked) == p
RouteHandler == "c1"
RouteDraws == {0, 90}
RouteSteps == {0, 37}

\* A page with more tracks than a request may ask for.
Crowd == [i \in 1..(ROUTE_MAX_COUNT + 1) |-> TrackFull]
RoutePageLists == {<<>>, <<TrackFull>>, Crowd}

\* The handler up to await storage.getAllSongs().
RouteStart ==
    /\ route.pc \in {"idle", "done"}
    /\ \E param \in CountParams :
         route' = [NoRoute EXCEPT !.pc = "songs", !.param = param,
                                  !.maxCount = RouteMaxCount(ParsedCount(param))]
    /\ StorageCall(RouteHandler, "getAllSongs")
    /\ UNCHANGED <<req, sel, many, fn, proc, silent, dl, catalogUp>>

\* storage.getAllSongs() has settled: 404, or the selection and the
\* response.
RouteAfterSongs ==
    /\ route.pc = "songs"
    /\ call[RouteHandler].pc = "ret"
    /\ LET allSongs == call[RouteHandler].ret.val
       IN  IF Len(allSongs) = 0
           THEN /\ route' = [route EXCEPT !.pc = "done", !.status = 404]
                /\ pool' = pool
           ELSE \E u \in RouteDraws, step \in RouteSteps :
                  LET randomSongs == PickSongs(allSongs, route.maxCount, u, step)
                  IN  /\ route' = [route EXCEPT
                                     !.pc = "done", !.status = 200,
                                     !.data = randomSongs,
                                     !.count = Len(randomSongs),
                                     !.total = Len(allSongs)]
                      /\ pool' = [pool EXCEPT
                                    !["storage"] =
                                       IF @ = allSongs THEN SongsAfterPicking(@, randomSongs)
                                       ELSE @]
    /\ UNCHANGED <<now, stamp, call, timers, lastResult, poolKind>>
    /\ UNCHANGED <<req, sel, many, fn, proc, silent, dl, catalogUp>>

\* ------------------------------------------- command-line runs
\* The processes: the API server (startServer), cli.js run from the command
\* line (main, runCliMode) and the worker script (run, fetchAndProcess),
\* the last two without arguments and outside Render.
Entries == {"server", "cli", "worker"}
NoProc == [entry |-> "none", pc |-> "none", code |-> 0]
Starter == "c1"

\* process.exit(code)
Exit(code) == [proc EXCEPT !.pc = "exited", !.code = code]

\* What the worker script exits with: fetchAndProcess catches and logs every
\* error, and run() ends with process.exit(0).
WorkerExitCode(failed) == 0

\* What runCliMode and main of cli.js exit with: process.exit(1) in the
\* catch block, else process.exit(0).
CliExitCode(failed) == IF failed THEN 1 ELSE 0

\* The process up to its first await.
ProcStart ==
    /\ proc.pc = "start"
    /\ IF proc.entry = "server"
       THEN /\ GetCached(Starter, "trending")
            /\ proc' = [proc EXCEPT !.pc = "trending"]
       ELSE /\ call' = [call EXCEPT ![Starter] =
                          Refreshing("trending",
                                     FetchBegin("trending",
                                                IF proc.entry = "cli"
                                                THEN TRENDING_DEFAULT_PAGES
                                                ELSE WORKER_PAGES))]
            /\ proc' = [proc EXCEPT !.pc = "fetch"]
            /\ UNCHANGED <<now, pool, stamp, timers, lastResult, poolKind>>
    /\ UNCHANGED <<req, sel, many, fn, route, silent, dl, catalogUp>>

\* startServer: getCachedTrendingSongs() has settled.
ServerAfterTrending ==
    /\ proc.pc = "trending"
    /\ call[Starter].pc = "ret"
    /\ IF call[Starter].ret.ok
       THEN /\ GetCached(Starter, "alltime")
            /\ proc' = [proc EXCEPT !.pc = "alltime"]
       ELSE /\ proc' = Exit(1)
            /\ UNCHANGED cacheVars
    /\ UNCHANGED <<req, sel, many, fn, route, silent, dl, catalogUp>>

\* startServer: getCachedAllTimeBestSongs() has settled; app.listen or
\* process.exit(1).
ServerAfterAllTime ==
    /\ proc.pc = "alltime"
    /\ call[Starter].pc = "ret"
    /\ proc' = IF call[Starter].ret.ok THEN [proc EXCEPT !.pc = "listening"] ELSE Exit(1)
    /\ UNCHANGED <<cacheVars, req, sel, many, fn, route, silent, dl, catalogUp>>

\* cli.js and the worker script: fetchTrendingSongs() has settled; the song
\* is selected, validated and shown, and the process exits.
CliAfterFetch ==
    /\ proc.pc = "fetch"
    /\ call[Starter].pc = "ret"
    /\ \E r \in Randoms, u \in Indexers :
         LET failed == \/ ~call[Starter].ret.ok
                       \/ ~ValidateSongUrls(GetRandomSong(call[Starter].ret.val, r, u))
         IN  proc' = Exit(IF proc.entry = "cli" THEN CliExitCode(failed)
                          ELSE WorkerExitCode(failed))
    /\ UNCHANGED <<cacheVars, req, sel, many, fn, route, silent, dl, catalogUp>>

StartPageLists == {<<>>, <<TrackFull>>, <<TrackBare>>}

\* --------------------------------- a catalog that stops answering
\* The catalog will never answer the page request process c is awaiting:
\* the promise of getSongs(page) stays pending. The callers await it with
\* no timer of their own, so nothing else resumes them.
Hang(c) ==
    /\ call[c].pc \in {"fetch", "fallback"}
    /\ c \notin silent
    /\ silent' = silent \cup {c}
    /\ UNCHANGED <<cacheVars, req, sel, many, fn, route, proc, dl, catalogUp>>

\* getSongs(page) settles for process c, whichever call awaits it, unless
\* the catalog has stopped answering it.
Answer(c) ==
    /\ c \notin silent
    /\ \/ PageResponse(c, PageLists)
       \/ LoadResponse(c)
       \/ FallbackResponse(c)
    /\ UNCHANGED <<req, sel, many, fn, route, proc, silent, dl, catalogUp>>

HangCallers == {"c1"}

\* ---------------------------------------------------- specifications
\* Nothing but the caches, the API server's handler and getRandomSong runs.
Idle ==
    /\ many = NoMany
    /\ fn = NoFn
    /\ route = NoRoute
    /\ proc = NoProc
    /\ silent = {}
    /\ dl = NoDownload
    /\ catalogUp = TRUE
idleVars == <<many, fn, route, proc, silent, dl, catalogUp>>

InitState ==
    /\ now = StartTime
    /\ pool = [k \in Pools |-> <<>>]
    /\ stamp = [k \in Pools |-> 0]
    /\ timers = 0
    /\ lastResult = [k \in Pools |-> <<>>]
    /\ req = NoRequest

\* The caches, one pool at a time, with concurrent callers.
Init ==
    /\ InitState
    /\ poolKind \in Pools
    \* new MemStorage() has called loadInitialSongs()
    /\ call = [c \in Procs |-> IF c = Bg /\ poolKind = "storage"
                                THEN Loading("load", FALSE) ELSE NoCall]
    /\ sel = NoSelection
    /\ Idle

Next ==
    \/ Tick /\ UNCHANGED <<req, sel, idleVars>>
    \/ \E c \in Callers : GetCached(c, poolKind) /\ UNCHANGED <<req, sel, idleVars>>
    \/ \E c \in Callers : PageResponse(c, PageLists) /\ UNCHANGED <<req, sel, idleVars>>
    \/ \E c \in StorageCallers, op \in {"getAllSongs", "getRandomSong"} :
           poolKind = "storage" /\ StorageCall(c, op) /\ UNCHANGED <<req, sel, idleVars>>
    \/ \E c \in Procs : LoadResponse(c) /\ UNCHANGED <<req, sel, idleVars>>
    \/ \E c \in Callers : FallbackResponse(c) /\ UNCHANGED <<req, sel, idleVars>>
    \/ TimerFires /\ UNCHANGED <<req, sel, idleVars>>

Spec == Init /\ [][Next]_vars

\* One refresh, called with any maxPages.
InitRefresh ==
    /\ InitState
    /\ poolKind \in Kinds
    /\ \E m \in 0..MaxPagesArg :
         call = [c \in Procs |-> IF c = Refresher
                                 THEN Refreshing(poolKind, FetchBegin(poolKind, m))
                                 ELSE NoCall]
    /\ sel = NoSelection
    /\ Idle

NextRefresh == RefreshPage /\ UNCHANGED idleVars

SpecRefresh == InitRefresh /\ [][NextRefresh]_vars

\* GET /random requests of the API server, one after the other.
InitRandom ==
    /\ InitState
    /\ poolKind = "trending"
    /\ call = [c \in Procs |-> NoCall]
    /\ sel = NoSelection
    /\ Idle

NextRandom ==
    \/ RandomStart /\ UNCHANGED idleVars
    \/ PageResponse(Handler, RandomPageLists) /\ UNCHANGED <<req, sel, idleVars>>
    \/ RandomAfterTrending /\ UNCHANGED idleVars
    \/ RandomAfterAllTime /\ UNCHANGED idleVars

SpecRandom == InitRandom /\ [][NextRandom]_vars

\* getRandomSong on every pool size and every pair of draws.
InitSelect ==
    /\ InitState
    /\ poolKind = "trending"
    /\ call = [c \in Procs |-> NoCall]
    /\ sel \in [pc : {"in"}, n : 1..MaxPool, random : Hundredths, u : IndexDraws, out : {0}]
    /\ Idle

NextSelect == Select /\ UNCHANGED idleVars

SpecSelect == InitSelect /\ [][NextSelect]_vars

\* getRandomSong and getMultipleRandomSongs on every pool and count given.
InitMany ==
    /\ InitState
    /\ poolKind = "trending"
    /\ call = [c \in Procs |-> NoCall]
    /\ sel = NoSelection
    /\ \E op \in {"getRandomSong", "getMultipleRandomSongs"},
          arg \in ManyPools, count \in ManyCounts :
         many = [NoMany EXCEPT !.pc = "in", !.op = op, !.arg = arg, !.count = count]
    /\ fn = NoFn
    /\ route = NoRoute
    /\ proc = NoProc
    /\ silent = {}
    /\ dl = NoDownload
    /\ catalogUp = TRUE

NextMany ==
    \/ ManyCall
    \/ ManyAttempt

SpecMany == InitMany /\ [][NextMany]_vars

\* searchInSongs, searchSongs and validateSongUrls on every argument given.
InitFn ==
    /\ InitState
    /\ poolKind = "trending"
    /\ call = [c \in Procs |-> NoCall]
    /\ sel = NoSelection
    /\ many = NoMany
    /\ \/ \E arg \in SearchPools, query \in Queries :
            fn = [NoFn EXCEPT !.pc = "in", !.op = "searchInSongs",
                              !.arg = arg, !.query = query]
       \/ \E query \in Queries :
            fn = [NoFn EXCEPT !.pc = "in", !.op = "searchSongs", !.query = query]
       \/ \E song \in ValidateInputs :
            fn = [NoFn EXCEPT !.pc = "in", !.op = "validateSongUrls", !.song = song]
    /\ route = NoRoute
    /\ proc = NoProc
    /\ silent = {}
    /\ dl = NoDownload
    /\ catalogUp = TRUE

NextFn ==
    \/ SearchInSongsCall
    \/ SearchSongsCall
    \/ SearchApiSettles
    \/ SearchTrendingSettles
    \/ ValidateCall

SpecFn == InitFn /\ [][NextFn]_vars

\* GET /random?count=N requests of the MemStorage routes, one after the
\* other, while the storage loads and reloads its songs.
InitRoute ==
    /\ InitState
    /\ poolKind = "storage"
    /\ call = [c \in Procs |-> IF c = Bg THEN Loading("load", FALSE) ELSE NoCall]
    /\ sel = NoSelection
    /\ Idle

NextRoute ==
    \/ Tick /\ UNCHANGED <<req, sel, idleVars>>
    \/ RouteStart
    \/ \E c \in {RouteHandler, Bg} :
           LoadResponseOf(c, RoutePageLists) /\ UNCHANGED <<req, sel, idleVars>>
    \/ TimerFires /\ UNCHANGED <<req, sel, idleVars>>
    \/ RouteAfterSongs

SpecRoute == InitRoute /\ [][NextRoute]_vars

\* One run of each process, from its start to its exit (or to app.listen).
InitStart ==
    /\ InitState
    /\ poolKind = "trending"
    /\ call = [c \in Procs |-> NoCall]
    /\ sel = NoSelection
    /\ many = NoMany
    /\ fn = NoFn
    /\ route = NoRoute
    /\ \E e \in Entries : proc = [NoProc EXCEPT !.entry = e, !.pc = "start"]
    /\ silent = {}
    /\ dl = NoDownload
    /\ catalogUp = TRUE

NextStart ==
    \/ ProcStart
    \/ PageResponse(Starter, StartPageLists) /\ UNCHANGED <<req, sel, idleVars>>
    \/ RefreshPage /\ UNCHANGED idleVars
    \/ ServerAfterTrending
    \/ ServerAfterAllTime
    \/ CliAfterFetch

SpecStart == InitStart /\ [][NextStart]_vars

\* The caches with one caller and a catalog that may stop answering; a
\* request the catalog has not given up on is answered in the end.
InitHang == Init

NextHang ==
    \/ Tick /\ UNCHANGED <<req, sel, idleVars>>
    \/ \E c \in HangCallers : GetCached(c, poolKind) /\ UNCHANGED <<req, sel, idleVars>>
    \/ \E c \in HangCallers, op \in {"getAllSongs", "getRandomSong"} :
           poolKind = "storage" /\ StorageCall(c, op) /\ UNCHANGED <<req, sel, idleVars>>
    \/ \E c \in Procs : Answer(c)
    \/ TimerFires /\ UNCHANGED <<req, sel, idleVars>>
    \/ \E c \in Procs : Hang(c)

SpecHang ==
    /\ InitHang
    /\ [][NextHang]_vars
    /\ \A c \in Procs : WF_vars(Answer(c))

\* formatSongData, and fetchAndProcessSongs from its selected song on, on
\* every raw song given.
InitFormat ==
    /\ InitState
    /\ poolKind = "trending"
    /\ call = [c \in Procs |-> NoCall]
    /\ sel = NoSelection
    /\ many = NoMany
    /\ \/ \E song \in FormatInputs :
            fn = [NoFn EXCEPT !.pc = "in", !.op = "formatSongData", !.song = song]
       \/ \E song \in {x \in FormatInputs : x.given} :
            fn = [NoFn EXCEPT !.pc = "in", !.op = "fetchAndProcessSongs", !.song = song]
    /\ route = NoRoute
    /\ proc = NoProc
    /\ silent = {}
    /\ dl = NoDownload
    /\ catalogUp = TRUE

NextFormat ==
    \/ FormatCall
    \/ ProcessSelectedSong

SpecFormat == InitFormat /\ [][NextFormat]_vars

\* A trending refresh and an all-time refresh, each called with any
\* maxPages, side by side.
InitPages ==
    /\ InitState
    /\ poolKind = "trending"
    /\ \E m1 \in TrendingArgs, m2 \in AllTimeArgs :
         call = [c \in Procs |->
                   IF c = TrendingCaller
                   THEN Refreshing("trending", FetchBegin("trending", m1))
                   ELSE IF c = AllTimeCaller
                   THEN Refreshing("alltime", FetchBegin("alltime", m2))
                   ELSE NoCall]
    /\ sel = NoSelection
    /\ Idle

NextPages == \E c \in RefreshCallers : DeepPageResponse(c) /\ UNCHANGED idleVars

SpecPages == InitPages /\ [][NextPages]_vars

\* One downloadMP3 call on every kind of url, with every course of its
\* request.
InitDownload ==
    /\ InitState
    /\ poolKind = "trending"
    /\ call = [c \in Procs |-> NoCall]
    /\ sel = NoSelection
    /\ many = NoMany
    /\ fn = NoFn
    /\ route = NoRoute
    /\ proc = NoProc
    /\ silent = {}
    /\ \E url \in UrlKinds : dl = [NoDownload EXCEPT !.pc = "in", !.url = url]
    /\ catalogUp = TRUE

NextDownload ==
    \/ DownloadCall
    \/ DownloadResponse
    \/ DownloadData
    \/ DownloadFinish
    \/ DownloadRequestError
    \/ DownloadFileError

SpecDownload == InitDownload /\ [][NextDownload]_vars

\* MemStorage with no client: the constructor's load, the retry timer and
\* a catalog that is down at first.  A pending timer fires and a page
\* request is answered in the end.
InitRetry ==
    /\ InitState
    /\ poolKind = "storage"
    /\ call = [c \in Procs |-> IF c = Bg THEN Loading("load", FALSE) ELSE NoCall]
    /\ sel = NoSelection
    /\ many = NoMany
    /\ fn = NoFn
    /\ route = NoRoute
    /\ proc = NoProc
    /\ silent = {}
    /\ dl = NoDownload
    /\ catalogUp = FALSE

NextRetry ==
    \/ Tick /\ UNCHANGED <<req, sel, idleVars>>
    \/ CatalogRecovers
    \/ RetryLoadResponse
    \/ TimerFires /\ UNCHANGED <<req, sel, idleVars>>

SpecRetry ==
    /\ InitRetry
    /\ [][NextRetry]_vars
    /\ WF_vars(RetryLoadResponse)
    /\ WF_vars(TimerFires /\ UNCHANGED <<req, sel, idleVars>>)

\* ================================================================ claims
KindOf(c) == call[c].kind
Age(k) == now - stamp[k]
FirstPageRejected(k) == <<[page |-> StartPage(k), resp |-> Rejected]>>

\* A getCached* call of c gets the last answer of its fetch in this step.
FetchSettles(c) ==
    call[c].pc = "fetch" /\ call[c].op = "getCached" /\ call'[c].pc = "ret"

\* C1: stale-on-error.  When the fetch of a getCachedTrendingSongs /
\* getCachedAllTimeBestSongs call fails while the pool holds records, the
\* call returns exactly the records of the pool (it does not fail), and the
\* pool and its timestamp stay as they were.
C1_StaleOnError ==
    [][\A c \in Callers :
         (FetchSettles(c) /\ call'[c].f.st = "err" /\ Len(pool[KindOf(c)]) > 0)
         => /\ call'[c].ret = Returned(pool[KindOf(c)])
            /\ pool' = pool
            /\ stamp' = stamp]_vars

\* A call has returned the stale pool of an earlier refresh, past its ttl.
C1_Witness ==
    \E c \in Callers :
        /\ call[c].pc = "ret" /\ call[c].path = "stale" /\ call[c].f.st = "err"
        /\ call[c].ret.ok /\ Len(call[c].ret.val) > 0
        /\ call[c].ret.val = pool[poolKind]
        /\ pool[poolKind] = lastResult[poolKind]
        /\ Age(poolKind) >= Ttl(poolKind)

\* C2: a MemStorage refresh that began on a pool holding records and ends
\* leaves songs as they were, unless it publishes the songs it loaded.
C2_FailedLoadKeepsSongs ==
    [][\A c \in Procs :
         (/\ call[c].pc = "fetch" /\ call[c].kind = "storage" /\ call[c].held
          /\ call'[c].pc # "fetch"
          /\ Len(songs) > 0)
         => \/ songs' = songs
            \/ Len(songs') > 0 /\ songs' = lastResult'["storage"]]_vars

\* C4: the published pool is always the full result of a completed refresh
\* (for the server caches: of the last one that succeeded) or the empty
\* pool the process starts with; never the part of a result built so far.
C4_PoolIsCompleteResult ==
    /\ \A k \in Kinds : pool[k] = lastResult[k]
    /\ songs \in {lastResult["storage"], <<>>}

\* A refresh is in flight with part of its result built, beside a published
\* pool that differs from that part.
C4_Witness ==
    \E c \in Procs :
        /\ call[c].pc = "fetch"
        /\ Len(call[c].f.allSongs) > 0
        /\ Len(pool[poolKind]) > 0
        /\ call[c].f.allSongs # pool[poolKind]

\* C5: when the first page request of a refresh rejects and the pool is
\* empty, the getCached* call fails, the pool stays empty and the timestamp
\* is not touched.
C5_FirstPageFailurePropagates ==
    [][\A c \in Callers :
         (/\ FetchSettles(c)
          /\ call'[c].f.log = FirstPageRejected(KindOf(c))
          /\ pool[KindOf(c)] = <<>>)
         => /\ ~call'[c].ret.ok
            /\ call'[c].f.st = "err"
            /\ pool' = pool
            /\ stamp' = stamp]_vars

\* A call has failed on a rejected first page with no pool to fall back on.
C5_Witness ==
    \E c \in Callers :
        /\ call[c].pc = "ret" /\ call[c].path = "error" /\ ~call[c].ret.ok
        /\ call[c].f.log = FirstPageRejected(poolKind)
        /\ pool[poolKind] = <<>>
        /\ stamp[poolKind] = 0

\* C6: a getPool call (getCached*Songs, getAllSongs) made while the pool
\* holds records younger than its ttl returns the pool at once, starts no
\* catalog request and changes neither the pool nor its timestamp; so two
\* such calls with no mutation in between return the same pool.
C6_FreshCallsAreIdempotent ==
    [][\A c \in Callers :
         (/\ call[c].pc \in {"idle", "ret"}
          /\ call'[c] # call[c]
          /\ call'[c].op \in {"getCached", "getAllSongs"}
          /\ Len(pool[poolKind]) > 0
          /\ Age(poolKind) < Ttl(poolKind))
         => /\ call'[c].pc = "ret"
            /\ call'[c].ret = Returned(pool[poolKind])
            /\ pool' = pool
            /\ stamp' = stamp]_vars

\* Two callers have each been served from the same pool, which is older
\* than zero and younger than its ttl.
C6_Witness ==
    /\ call["c1"].path = "hit" /\ call["c2"].path = "hit"
    /\ call["c1"].ret = Returned(pool[poolKind])
    /\ call["c2"].ret = Returned(pool[poolKind])
    /\ Age(poolKind) > 0 /\ Age(poolKind) < Ttl(poolKind)

\* ---------------------------------------------------------------- C3
IsUrl(x) == x \notin {"", DownloadObject}

\* C3: whenever GET /random of the API server answers with success, the
\* track it returns has a stream URL or a download URL.
C3_SuccessReturnsUsableTrack ==
    (req.pc = "done" /\ req.status = 200)
    => (IsUrl(req.song.stream_url) \/ IsUrl(req.song.download_url))

\* ---------------------------------------------------------------- C7
RECURSIVE ConcatPages(_)
ConcatPages(log) ==
    IF log = <<>> THEN <<>>
    ELSE ConcatPages(SubSeq(log, 1, Len(log) - 1)) \o log[Len(log)].resp.songs

NonEmptyAnswer(e) == e.resp.ok /\ Len(e.resp.songs) > 0
ThreeRecords == <<TrackFull, TrackBare, TrackNoLink>>
TheRefresh == call[Refresher].f

\* C7: a refresh requests the pages one by one in increasing order from
\* its start page, each only after the page before it answered with a
\* non-empty list, at most maxPages of them, and goes on until a page
\* answers empty (or rejects) or maxPages pages are read; what it returns
\* is the concatenation of the pages it received.  With 3 records on page
\* 1 and an empty page 2, fetchTrendingSongs(5) returns those 3 records
\* and requests no page beyond the second.
C7_SequentialPaging ==
    LET f == TheRefresh
        n == Len(f.log)
    IN  /\ \A i \in 1..n : f.log[i].page = StartPage(f.kind) + i - 1
        /\ \A i \in 1..(n - 1) : NonEmptyAnswer(f.log[i])
        /\ n <= f.maxPages
        /\ f.st = "req" => /\ f.page = StartPage(f.kind) + n
                           /\ n < f.maxPages
                           /\ \A i \in 1..n : NonEmptyAnswer(f.log[i])
        /\ (f.st \in {"ok", "err"} /\ n > 0 /\ NonEmptyAnswer(f.log[n])) => n = f.maxPages
        /\ f.st \in {"req", "ok"} => f.allSongs = ConcatPages(f.log)
        /\ f.st = "ok" => call[Refresher].ret = Returned(ConcatPages(f.log))
        /\ (/\ f.kind = "trending" /\ f.maxPages = 5 /\ n >= 2
            /\ f.log[1].resp = Resolved(ThreeRecords)
            /\ f.log[2].resp = Resolved(<<>>))
           => /\ n = 2
              /\ f.st = "ok"
              /\ call[Refresher].ret = Returned(ThreeRecords)

\* fetchTrendingSongs(5) has read 3 records on page 1 and an empty page 2.
C7_Witness ==
    /\ TheRefresh.kind = "trending" /\ TheRefresh.maxPages = 5
    /\ TheRefresh.log = <<[page |-> 1, resp |-> Resolved(ThreeRecords)],
                          [page |-> 2, resp |-> Resolved(<<>>)]>>
    /\ call[Refresher].pc = "ret"
    /\ call[Refresher].ret = Returned(ThreeRecords)

\* ---------------------------------------------------------------- C8
\* C8: when a page after the first rejects, records being accumulated, the
\* refresh ends there and returns the records accumulated so far, as a
\* success.
C8_LaterPageFailureIsPartialSuccess ==
    LET f == TheRefresh
        n == Len(f.log)
    IN  (n >= 2 /\ ~f.log[n].resp.ok)
        => /\ f.st = "ok"
           /\ call[Refresher].pc = "ret"
           /\ Len(f.allSongs) > 0
           /\ f.allSongs = ConcatPages(SubSeq(f.log, 1, n - 1))
           /\ call[Refresher].ret = Returned(f.allSongs)

\* A refresh has ended on the rejection of its second page.
C8_Witness ==
    /\ Len(TheRefresh.log) = 2
    /\ ~TheRefresh.log[2].resp.ok
    /\ TheRefresh.maxPages > 2
    /\ call[Refresher].pc = "ret"
    /\ call[Refresher].ret.ok
    /\ Len(call[Refresher].ret.val) > 0

\* ---------------------------------------------------------------- C9
\* A catalog track that has a stream URL or a download URL.
TrackUsable(t) == t.previewUrl # "" \/ t.download.regular # ""

\* C9: every record held in a pool of the API server is usable.
C9_PoolRecordsUsable ==
    \A k \in Kinds : \A i \in 1..Len(pool[k]) : TrackUsable(pool[k][i])

\* --------------------------------------------------------------- C10
\* C10: for a pool of n >= 1 tracks and any draws, getRandomSong returns a
\* track of the pool; its rank is within the first ceil(0.6 n) when
\* random < 0.70, within the first ceil(0.8 n) when 0.70 <= random < 0.90.
C10_WeightedPrefixSelection ==
    sel.pc = "done"
    => /\ sel.out \in 1..sel.n
       /\ sel.random < 70 => 10 * (sel.out - 1) < 6 * sel.n
       /\ (sel.random >= 70 /\ sel.random < 90) => 10 * (sel.out - 1) < 8 * sel.n

\* A draw of 0.70 <= random < 0.90 picked the last track of the top-80%
\* prefix, which lies beyond the top-60% prefix and before the pool's end.
C10_Witness ==
    /\ sel.pc = "done"
    /\ sel.random >= 70 /\ sel.random < 90
    /\ 10 * (sel.out - 1) >= 6 * sel.n
    /\ 10 * sel.out >= 8 * sel.n
    /\ sel.out < sel.n

\* --------------------------------------------------------------- C11
\* C11: called on a pool that is missing or has zero elements, getRandomSong
\* and getMultipleRandomSongs throw: they return no track and select none.
C11_EmptyPoolFails ==
    (many.pc # "in" /\ (~many.arg.given \/ Len(many.arg.items) = 0))
    => /\ many.pc = "thrown"
       /\ many.ret = <<>>
       /\ many.selectedSongs = <<>>

\* getMultipleRandomSongs has thrown on an array of length 0.
C11_Witness ==
    /\ many.pc = "thrown"
    /\ many.op = "getMultipleRandomSongs"
    /\ many.arg.given
    /\ Len(many.arg.items) = 0

\* --------------------------------------------------------------- C12
Least(S) == CHOOSE x \in S : \A y \in S : x <= y
Members(list) == {list[j] : j \in 1..Len(list)}
ManyReturned ==
    /\ many.op = "getMultipleRandomSongs"
    /\ many.pc = "done"
    /\ many.count.given

\* C12 as claimed: for a non-empty pool and any integer count,
\* getMultipleRandomSongs returns exactly min(count, 10, pool.length)
\* tracks, all of the pool.
C12_ReturnsMinOfCountTenLength ==
    ManyReturned
    => /\ Len(many.ret) = Least({many.count.n, 10, Len(many.arg.items)})
       /\ Members(many.ret) \subseteq Members(many.arg.items)

\* C12 as amended: it returns exactly max(0, min(count, 10, pool.length))
\* tracks, all of the pool: none for a count below 1.
C12_ReturnsMinOrNone ==
    ManyReturned
    => /\ Len(many.ret) = IF many.count.n < 0 THEN 0
                          ELSE Least({many.count.n, 10, Len(many.arg.items)})
       /\ Members(many.ret) \subseteq Members(many.arg.items)

\* Eleven tracks were asked of a pool of twelve and ten were returned.
C12_Witness ==
    /\ ManyReturned
    /\ many.count.n = 11
    /\ Len(many.arg.items) = 12
    /\ Len(many.ret) = 10

\* --------------------------------------------------------------- C13
\* The getRandomSong calls made so far, weighted so that a finished slot
\* counts for a full budget.
Effort == 10 * Len(many.selectedSongs) + many.attempts
Pushes == Len(many'.selectedSongs) = Len(many.selectedSongs) + 1
Pushed == many'.selectedSongs[Len(many'.selectedSongs)]

\* C13: no slot of getMultipleRandomSongs calls getRandomSong more than 10
\* times and every turn of the loop brings the call nearer to its end, which
\* is at most 10 calls per slot away; a track whose name is already in the
\* batch is added only by a slot that made all 10 calls.
C13_BoundedRetries ==
    /\ [](many.attempts < 10 /\ many.lastAttempts <= 10
          /\ Effort <= IF many.maxCount > 0 THEN 10 * many.maxCount ELSE 0)
    /\ [][/\ many.pc = "loop" => Effort' > Effort
          /\ (Pushes /\ Pushed \in Members(many.selectedSongs))
                => many'.lastAttempts = 10]_vars

\* Two tracks were asked of a pool with one name: the second slot made 10
\* calls and added the name again.
C13_Witness ==
    /\ many.pc = "done"
    /\ Len(many.ret) = 2
    /\ many.ret[1] = many.ret[2]
    /\ many.lastAttempts = 10

\* --------------------------------------------------------------- C14
\* Letters that differ in case only.
SameLetter(a, b) ==
    \/ a = b
    \/ {a, b} \in {{"A", "a"}, {"F", "f"}, {"W", "w"}, {"X", "x"}}
\* q occurs in str, case ignored.
Occurs(q, str) ==
    \E i \in 0..(Len(str) - Len(q)) : \A k \in 1..Len(q) : SameLetter(str[i + k], q[k])
TitleOf(r) == IF r.name # <<>> THEN r.name ELSE r.title
ArtistNames(r) == IF r.hasArtists THEN Join(r.artists, <<" ">>) ELSE r.artist
OccursInAField(q, r) ==
    Occurs(q, TitleOf(r)) \/ Occurs(q, ArtistNames(r)) \/ Occurs(q, r.genre)
Blank(q) == q.given /\ \A i \in 1..Len(q.text) : q.text[i] = " "
Searched == fn.op \in {"searchInSongs", "searchSongs"} /\ fn.pc \in {"done", "thrown"}

\* C14: for an empty or whitespace-only query searchInSongs and searchSongs
\* return [] and do not throw, whatever the pool; searchInSongs also
\* returns [] when no record of the pool contains the query.
C14_BlankQueryFindsNothing ==
    /\ (Searched /\ Blank(fn.query)) => (fn.pc = "done" /\ fn.ret = <<>>)
    /\ (/\ fn.op = "searchInSongs" /\ fn.pc = "done" /\ fn.query.given
        /\ \A j \in 1..Len(fn.arg.items) : ~OccursInAField(fn.query.text, fn.arg.items[j]))
       => fn.ret = <<>>

\* --------------------------------------------------------------- C15
\* The fields a record has, put together with a space between them.
Concatenation(r) ==
    Join(SelectSeq(<<TitleOf(r), ArtistNames(r), r.genre>>, LAMBDA f : f # <<>>),
         <<" ">>)
SearchedLocally ==
    /\ fn.op = "searchInSongs"
    /\ fn.pc = "done"
    /\ fn.arg.given
    /\ fn.query.given
    /\ fn.query.text # <<>>
FadeForAlan ==
    (fn.arg.items = <<TrackFade>> /\ fn.query.text = <<"a", "l", "a", "n">>)
    => fn.ret = <<TrackFade>>

\* C15 as claimed: for a non-empty query searchInSongs returns, in pool
\* order, exactly the records in whose title, artist names and genre, put
\* together, the query occurs, case ignored; {Fade, [Alan Walker]} is
\* returned for "alan".
C15_MatchesConcatenation ==
    SearchedLocally
    => /\ fn.ret = SelectSeq(fn.arg.items,
                             LAMBDA r : Occurs(fn.query.text, Concatenation(r)))
       /\ FadeForAlan

\* C15 as amended: it returns, in pool order, exactly the records in whose
\* title, or artist names joined by spaces, or genre the query occurs, case
\* ignored; {Fade, [Alan Walker]} is returned for "alan".
C15_MatchesOneField ==
    SearchedLocally
    => /\ fn.ret = SelectSeq(fn.arg.items,
                             LAMBDA r : OccursInAField(fn.query.text, r))
       /\ FadeForAlan

\* The query "A" found Fade (by its title and its artist) and the track
\* with the artist field "Ad", in pool order, and left out no record but
\* the one it does not occur in.
C15_Witness ==
    /\ SearchedLocally
    /\ fn.query.text = <<"A">>
    /\ fn.arg.items = <<TrackSolo, TrackFade>>
    /\ fn.ret = <<TrackSolo, TrackFade>>

\* --------------------------------------------------------------- C16
\* C16: validateSongUrls returns true exactly for a track with a stream or
\* download URL, false for any other input, a missing track included, and
\* never throws.
C16_ValidateIsTotal ==
    (fn.op = "validateSongUrls" /\ fn.pc # "in")
    => /\ fn.pc = "done"
       /\ fn.valid = (fn.song.given /\ TrackUsable(fn.song.track))

\* --------------------------------------------------------------- C17
Clamped(param) ==
    IF param.kind # "number" \/ param.n < 1 THEN 1
    ELSE IF param.n > 50 THEN 50 ELSE param.n

\* C17: GET /random?count=N asks for N songs clamped to [1,50] (1 for a
\* missing or non-numeric count and for N < 1, 50 for N > 50), and a
\* success response carries at least 1 and at most 50 songs.
C17_CountClamped ==
    /\ route.pc \in {"songs", "done"} => route.maxCount = Clamped(route.param)
    /\ (route.pc = "done" /\ route.status = 200)
       => (1 <= Len(route.data) /\ Len(route.data) <= 50)

\* --------------------------------------------------------------- C18
\* The process's last catalog request was the first page of a fetch, it was
\* rejected, and no cache exists.
CatalogUnavailable ==
    /\ call[Starter].f.log = FirstPageRejected(call[Starter].kind)
    /\ pool[call[Starter].kind] = <<>>

\* C18: a process that finds the catalog unavailable with no cache exits
\* with a non-zero code, be it the server at start-up or a command-line run.
C18_UnavailableCatalogExitsNonZero ==
    (proc.pc = "exited" /\ CatalogUnavailable) => proc.code # 0

\* --------------------------------------------------------------- C19
\* The handler got both pools and went on to select from them.
SelectionAttempted == req.pc = "done" /\ (req.draws > 0 \/ req.status = 404)
NoUsableRecord ==
    \A t \in Members(cachedTrendingSongs \o cachedAllTimeBestSongs) : ~TrackUsable(t)

\* C19: when GET /random selects from pools without a single usable record
\* it answers 404, neither a success nor a 5xx.
C19_NoUsableRecordIs404 ==
    (SelectionAttempted /\ NoUsableRecord) => req.status = 404

\* --------------------------------------------------------------- C20
Awaiting(c) == call[c].pc \in {"fetch", "fallback"}

\* C20: every call that awaits a catalog page completes in the end, with a
\* result or an error, also when the catalog stops answering.
C20_EveryCallCompletes ==
    \A c \in Procs : Awaiting(c) ~> ~Awaiting(c)

\* --------------------------------------------------------------- C21
Formatted == fn.op = "formatSongData" /\ fn.pc = "done"
NoDownloadUrl(song) == song.download.regular = ""

\* C21: formatting a track whose artists list is empty yields the artist
\* text "Unknown Artist"; formatting a track with no download URL yields a
\* download_url equal to its stream_url, so download_url is null only when
\* stream_url is null.
C21_EmptyArtistsAndMissingDownload ==
    Formatted
    => LET song == fn.song.track
       IN  /\ (song.hasArtists /\ song.artists = <<>>) => fn.ret.artist = UnknownArtist
           /\ NoDownloadUrl(song) => fn.ret.download_url = fn.ret.stream_url
           /\ fn.ret.download_url = "" => fn.ret.stream_url = ""

\* --------------------------------------------------------------- C22
\* The page numbers a refresh has requested so far.
PagesRequested(c) ==
    {call[c].f.log[i].page : i \in 1..Len(call[c].f.log)}
    \cup (IF call[c].pc = "fetch" THEN {call[c].f.page} ELSE {})

\* C22: for every pair of maxPages arguments, no page number is requested
\* both by fetchTrendingSongs(m1) and by fetchAllTimeBestSongs(m2).
C22_DisjointPageRanges ==
    PagesRequested(TrendingCaller) \cap PagesRequested(AllTimeCaller) = {}

\* --------------------------------------------------------------- C23
\* The failures the claim lists, by the message of the rejection.
ListedFailures == {"Download failed", "File write error", "HTTP: Failed to download file"}

\* C23: whenever the promise of downloadMP3 rejects (request error, file
\* write error, or a status other than 200 / 301 / 302) no file is left at
\* the destination path, and the promise settles exactly once.
C23_CleanupOnEveryFailure ==
    /\ (dl.promise = "rejected" /\ dl.error \in ListedFailures) => ~dl.file
    /\ dl.settles <= 1
    /\ dl.pc = "ended" => dl.settles = 1

\* --------------------------------------------------------------- C24
\* The calls with a catalog page request of a refresh outstanding.
Refreshes == {c \in Procs : call[c].pc = "fetch"}
PoolStale == Len(pool[poolKind]) = 0 \/ now - stamp[poolKind] >= Ttl(poolKind)

\* C24 (as claimed): for one pool at most one refresh is in flight: when
\* several getPool calls overlap while the pool is stale or empty, at most
\* one catalog page request for that pool is outstanding.
C24_SingleRefreshInFlight == Cardinality(Refreshes) <= 1

\* C24 (amended): a call (or MemStorage's timer) starts a refresh only when
\* it finds the pool empty or at least ttl old, and one step starts one
\* refresh; calls that overlap on such a pool each run their own.
C24_RefreshOnlyWhenStale ==
    [][\A c \in Procs :
         (c \notin Refreshes /\ c \in Refreshes')
         => (PoolStale /\ Refreshes' = Refreshes \cup {c})]_vars

\* Two calls overlap on a stale or empty pool, each with a page request
\* outstanding.
C24_Witness == Cardinality(Refreshes) >= 2 /\ PoolStale

\* --------------------------------------------------------------- C25
\* C25: a refresh (fetchTrendingSongs, fetchAllTimeBestSongs) returns at
\* least one record or fails with an error, never an empty list; so a
\* server cache that holds records holds records ever after.
C25_RefreshNeverEmpty ==
    [][\A k \in Kinds :
         /\ Len(pool[k]) > 0 => Len(pool'[k]) > 0
         /\ \A c \in Callers :
              (FetchSettles(c) /\ KindOf(c) = k)
              => \/ call'[c].f.st = "err"
                 \/ /\ call'[c].f.st = "ok"
                    /\ call'[c].ret.ok
                    /\ Len(call'[c].ret.val) > 0
                    /\ pool'[k] = call'[c].ret.val]_vars

\* A populated server cache has outlived a refresh whose first page came
\* back empty: the refresh threw instead of returning [].
C25_Witness ==
    \E c \in Callers :
        /\ poolKind \in Kinds
        /\ call[c].pc = "ret" /\ call[c].f.st = "err"
        /\ Len(call[c].f.log) = 1
        /\ call[c].f.log[1].resp = Resolved(<<>>)
        /\ Len(pool[poolKind]) > 0

\* --------------------------------------------------------------- C26
\* C26: with no client request, once the catalog is available (and stays
\* so) after failed loads, MemStorage's pool becomes non-empty in the end:
\* every failed or empty load schedules a retry.
C26_RetriesUntilLoaded == catalogUp ~> (Len(songs) > 0)

\* The catalog has come up after a load that failed, the pool is empty and
\* the retry that load scheduled is pending.
C26_Witness ==
    /\ catalogUp
    /\ Len(songs) = 0
    /\ timers = 1
    /\ call[Bg].pc = "idle"

\* --------------------------------------------------------------- C27
\* C27: for every raw track for which validateSongUrls returns true,
\* formatSongData yields a record with a non-null stream_url or with a
\* download_url that is a URL string.
C27_ValidatedSongHasUrl ==
    (fn.op = "fetchAndProcessSongs" /\ fn.pc = "done" /\ fn.valid)
    => (fn.ret.stream_url # "" \/ IsUrl(fn.ret.download_url))

\* --------------------------------------------------------------- C28
\* The handler of GET /random?count=N sends a success response in this
\* step.
RouteSucceeds == route.pc = "songs" /\ route'.pc = "done" /\ route'.status = 200

\* C28: a success response of GET /random?count=N holds no song twice (all
\* ids distinct), every song of it is in the pool the request read, its
\* count field is the number of songs in data, that number is
\* min(requested count, total_available) with the requested count clamped
\* as in C17, and the stored pool is as it was before the response.
C28_DistinctSongsFromPool ==
    [][RouteSucceeds
       => LET data == route'.data
              allSongs == call[RouteHandler].ret.val
          IN  /\ \A i, j \in 1..Len(data) : i # j => data[i].id # data[j].id
              /\ \A i \in 1..Len(data) : \E j \in 1..Len(allSongs) : allSongs[j] = data[i]
              /\ route'.count = Len(data)
              /\ route'.total = Len(allSongs)
              /\ Len(data) = Min2(Clamped(route.param), route'.total)
              /\ pool' = pool]_vars

====
